---- MODULE Spec2Model ----
(***************************************************************************)
(* Model of the HuggingFace wrappers of jfrog-cli-artifactory:             *)
(*   huggingface_download.download, huggingface_upload.upload and the      *)
(*   driver script hfUtils.py.                                             *)
(* A run is either a client making one call into a wrapper with an         *)
(* arbitrary Python argument list, or one execution of the driver script.  *)
(* The huggingface_hub library is the environment: each of its calls       *)
(* either returns some value or raises some exception.                     *)
(***************************************************************************)
EXTENDS Integers, Sequences, FiniteSets, TLC

VARIABLES
    caller,       \* "client" or "script": who drives this run
    environ,      \* os.environ: a function from the variable names that are set
    spc,          \* position of the script: the line it executes next
    stdout,       \* what print() has written so far
    model_path,   \* the script's variable model_path
    uncaught,     \* the exception that ended the script, if any
    wrappercalls, \* the calls made into download/upload in this run
    call,         \* the call the wrapper is serving: [fn, pos, kw]
    wpc,          \* position inside the wrapper
    frame,        \* the wrapper's locals after argument binding
    libcalls,     \* the invocations of huggingface_hub made by the wrapper
    libresult,    \* how the library call ended
    outcome       \* what the wrapper call delivered to its caller

vars == <<caller, environ, spc, stdout, model_path, uncaught, wrappercalls,
          call, wpc, frame, libcalls, libresult, outcome>>

----------------------------------------------------------------------------
\* Bounds of the model.

\* most positional arguments a client passes (the wrappers name four)
MaxPos == 5
\* number of distinct passthrough keyword names a client may use
MaxExtra == 2

----------------------------------------------------------------------------
\* Python values. Every value has the same three fields so that any two
\* values can be compared.

PyStr(s) == [tag |-> "str", s |-> s, n |-> 0]
PyInt(i) == [tag |-> "int", s |-> "", n |-> i]
PyNone == [tag |-> "NoneType", s |-> "", n |-> 0]
PyExc(name) == [tag |-> "exception", s |-> name, n |-> 0]
PyObj(cls) == [tag |-> "object", s |-> cls, n |-> 0]
\* a name that is not bound (yet)
Unbound == [tag |-> "unbound", s |-> "", n |-> 0]

EmptyDict == [k \in {} |-> PyNone]
NoCall == [fn |-> "none", pos |-> <<>>, kw |-> EmptyDict]
NoResult == [kind |-> "none", val |-> Unbound]
NoFrame == [named |-> EmptyDict, kwargs |-> EmptyDict]

Returned(v) == [kind |-> "return", val |-> v]
Raised(e) == [kind |-> "raise", val |-> e]

----------------------------------------------------------------------------
\* Signatures of the wrappers.

\* Variant: the revision parameter defaults to the empty string.
DownloadDefaultsEmptyString == [k \in {"revision"} |-> PyStr("")]

\* def download(repo_id, repo_type, etag_timeout, revision=None, **kwargs)
DownloadParams == <<"repo_id", "repo_type", "etag_timeout", "revision">>
DownloadDefaults == [k \in {"revision"} |-> PyNone]

\* def upload(folder_path, repo_id, repo_type, revision=None, **kwargs)
UploadParams == <<"folder_path", "repo_id", "repo_type", "revision">>
UploadDefaults == [k \in {"revision"} |-> PyNone]

ParamNames(params) == {params[i] : i \in 1..Len(params)}
ParamIndex(params, name) == CHOOSE i \in 1..Len(params) : params[i] = name

\* Python's binding of an argument list (pos, kw) to a signature with the
\* positional-or-keyword parameters params, the defaults and a **kwargs.
Bind(params, defaults, pos, kw) ==
    LET names == ParamNames(params)
        positional == {params[i] : i \in 1..Len(params)} \ {params[i] : i \in (Len(pos)+1)..Len(params)}
        missing == names \ (positional \cup DOMAIN kw \cup DOMAIN defaults)
    IN  IF Len(pos) > Len(params)
          THEN [ok |-> FALSE, exc |-> PyExc("TypeError")]
        ELSE IF positional \cap DOMAIN kw # {}
          THEN [ok |-> FALSE, exc |-> PyExc("TypeError")]
        ELSE IF missing # {}
          THEN [ok |-> FALSE, exc |-> PyExc("TypeError")]
        ELSE [ok |-> TRUE,
              named |-> [p \in names |->
                           IF p \in positional THEN pos[ParamIndex(params, p)]
                           ELSE IF p \in DOMAIN kw THEN kw[p]
                           ELSE defaults[p]],
              kwargs |-> [k \in DOMAIN kw \ names |-> kw[k]]]

BindDownload(pos, kw) == Bind(DownloadParams, DownloadDefaults, pos, kw)
BindUpload(pos, kw) == Bind(UploadParams, UploadDefaults, pos, kw)

----------------------------------------------------------------------------
\* The wrapper bodies.

\* Variant: the call statement lacks **kwargs.
CallKwargsDropped(explicit, kwargs) == explicit

\* f(k1=v1, ..., **kwargs): the keyword arguments the callee receives. Binding
\* has already taken the wrapper's own parameter names out of kwargs, so the
\* two parts never share a key.
CallKwargs(explicit, kwargs) ==
    [k \in DOMAIN explicit \cup DOMAIN kwargs |->
        IF k \in DOMAIN explicit THEN explicit[k] ELSE kwargs[k]]

\* Variant: revision and repo_type are passed in each other's place.
SnapshotDownloadArgsSwapped(named, kwargs) ==
    CallKwargs([repo_id |-> named["repo_id"],
                revision |-> named["repo_type"],
                repo_type |-> named["revision"],
                etag_timeout |-> named["etag_timeout"]], kwargs)

\* snapshot_download(repo_id=repo_id, revision=revision, repo_type=repo_type,
\*                   etag_timeout=etag_timeout, **kwargs)
SnapshotDownloadArgs(named, kwargs) ==
    CallKwargs([repo_id |-> named["repo_id"],
                revision |-> named["revision"],
                repo_type |-> named["repo_type"],
                etag_timeout |-> named["etag_timeout"]], kwargs)

\* Variant: the call statement lacks its return.
DownloadReturnNothing(libval) == Returned(PyNone)

\* return snapshot_download(...)
DownloadReturn(libval) == Returned(libval)

\* download has no try/except: an exception of snapshot_download unwinds it
DownloadUnwind(exc) == Raised(exc)

\* Variant: folder_path and repo_id are passed in each other's place.
UploadFolderArgsSwapped(named, kwargs) ==
    CallKwargs([folder_path |-> named["repo_id"],
                repo_id |-> named["folder_path"],
                revision |-> named["revision"],
                repo_type |-> named["repo_type"]], kwargs)

\* api.upload_folder(folder_path=folder_path, repo_id=repo_id,
\*                   revision=revision, repo_type=repo_type, **kwargs)
UploadFolderArgs(named, kwargs) ==
    CallKwargs([folder_path |-> named["folder_path"],
                repo_id |-> named["repo_id"],
                revision |-> named["revision"],
                repo_type |-> named["repo_type"]], kwargs)

\* Variant: upload returns what upload_folder returned.
UploadReturnResult(libval) == Returned(libval)

\* upload ends without a return statement: the result of upload_folder is dropped
UploadReturn(libval) == Returned(PyNone)

\* Variant: upload catches the exception and ends normally.
UploadSwallow(exc) == Returned(PyNone)

\* upload has no try/except: an exception of upload_folder unwinds it
UploadUnwind(exc) == Raised(exc)

----------------------------------------------------------------------------
\* The argument lists a client may write.

RepoIds == {PyStr("bert-base-uncased"), PyStr("org/model")}
RepoTypes == {PyStr("model"), PyStr("bogus")}
EtagTimeouts == {PyInt(86400), PyInt(10)}
Revisions == {PyNone, PyStr(""), PyStr("main")}
FolderPaths == {PyStr("/tmp/model"), PyStr("/data/ds")}

ExtraKeyNames == <<"token", "local_dir", "cache_dir", "allow_patterns">>
ExtraKeys == {ExtraKeyNames[i] : i \in 1..MaxExtra}

ArgDomain(name) ==
    CASE name = "repo_id" -> RepoIds
      [] name = "repo_type" -> RepoTypes
      [] name = "etag_timeout" -> EtagTimeouts
      [] name = "revision" -> Revisions
      [] name = "folder_path" -> FolderPaths
      [] OTHER -> {PyStr(name)}

Extend(m, k, v) == [x \in DOMAIN m \cup {k} |-> IF x = k THEN v ELSE m[x]]

RECURSIVE PosSeqs(_, _)
PosSeqs(params, len) ==
    IF len = 0 THEN {<<>>}
    ELSE {Append(p, v) : p \in PosSeqs(params, len - 1),
                         v \in IF len <= Len(params) THEN ArgDomain(params[len])
                               ELSE {PyStr("surplus")}}

PosArgs(params) == UNION {PosSeqs(params, len) : len \in 0..MaxPos}

RECURSIVE KwMaps(_, _)
KwMaps(keys, i) ==
    IF i = 0 THEN {EmptyDict}
    ELSE LET prev == KwMaps(keys, i - 1)
         IN  prev \cup {Extend(m, keys[i], v) : m \in prev, v \in ArgDomain(keys[i])}

KwArgs(params) ==
    LET keys == params \o [i \in 1..MaxExtra |-> ExtraKeyNames[i]]
    IN  KwMaps(keys, Len(keys))

SignatureOf(fn) == IF fn = "download" THEN DownloadParams ELSE UploadParams

----------------------------------------------------------------------------
\* The library and the process environment.

\* what snapshot_download may return, and what upload_folder may return
SnapshotPaths == {PyStr("/cache/models--admin/snapshots/abc"), PyStr(""), PyNone}
UploadResults == {PyObj("CommitInfo"), PyStr("https://hub/commit/1")}
\* what either may raise
LibExceptions == {PyExc("RepositoryNotFoundError"), PyExc("RevisionNotFoundError"),
                  PyExc("HfHubHTTPError")}

Endpoints == {"https://acme.jfrog.io/artifactory/api/huggingfaceml/hf-remote", ""}
Tokens == {"jfrog-access-token"}

Environs ==
    {EmptyDict}
    \cup {[k \in {"HF_ENDPOINT"} |-> e] : e \in Endpoints}
    \cup {[k \in {"HF_TOKEN"} |-> t] : t \in Tokens}
    \cup {[k \in {"HF_ENDPOINT", "HF_TOKEN"} |-> IF k = "HF_ENDPOINT" THEN e ELSE t] :
            e \in Endpoints, t \in Tokens}

\* Variant: os.environ.get(key), which yields None for a name that is not set.
EnvironGet(env, key) ==
    IF key \in DOMAIN env THEN Returned(PyStr(env[key])) ELSE Returned(PyNone)

\* os.environ[key]
EnvironGetItem(env, key) ==
    IF key \in DOMAIN env THEN Returned(PyStr(env[key])) ELSE Raised(PyExc("KeyError"))

----------------------------------------------------------------------------
\* The driver script hfUtils.py.

MY_REPO == PyStr("admin")
MY_TYPE == PyStr("model")
MY_REVISION == PyStr("main")
MY_ETAG_TIMEOUT == 86400

\* print(f"...") writes the text with its fields filled in
Message(text, fields) == [text |-> text, fields |-> fields]
StartMessage == Message("Starting download of {MY_REPO} (revision: {MY_REVISION})...",
                        <<MY_REPO, MY_REVISION>>)
EndpointMessage(endpoint) == Message("From endpoint: {os.environ['HF_ENDPOINT']}", <<endpoint>>)
CompleteMessage(path) == Message("Download complete! Model saved to: {model_path}", <<path>>)

\* Variant: the script leaves the revision to the wrapper's default.
ScriptCallNoRevision ==
    [fn |-> "download",
     pos |-> <<>>,
     kw |-> [repo_id |-> MY_REPO, repo_type |-> MY_TYPE,
             etag_timeout |-> PyInt(MY_ETAG_TIMEOUT)]]

\* download(repo_id=MY_REPO, repo_type=MY_TYPE, etag_timeout=MY_ETAG_TIMEOUT,
\*          revision=MY_REVISION)
ScriptCall ==
    [fn |-> "download",
     pos |-> <<>>,
     kw |-> [repo_id |-> MY_REPO, repo_type |-> MY_TYPE,
             etag_timeout |-> PyInt(MY_ETAG_TIMEOUT), revision |-> MY_REVISION]]

----------------------------------------------------------------------------
\* Initial state: nothing has run yet. A client runs in some environment the
\* wrappers never look at; the script runs in any environment.

Init ==
    /\ caller \in {"client", "script"}
    /\ environ \in IF caller = "script" THEN Environs ELSE {EmptyDict}
    /\ spc = IF caller = "script" THEN "line17" ELSE "off"
    /\ stdout = <<>>
    /\ model_path = Unbound
    /\ uncaught = Unbound
    /\ wrappercalls = <<>>
    /\ call = NoCall
    /\ wpc = "idle"
    /\ frame = NoFrame
    /\ libcalls = <<>>
    /\ libresult = NoResult
    /\ outcome = NoResult

\* Entering a wrapper: the call is recorded and the wrapper starts afresh.
Enter(c) ==
    /\ wrappercalls' = Append(wrappercalls, c)
    /\ call' = c
    /\ wpc' = "bind"
    /\ frame' = NoFrame
    /\ libcalls' = <<>>
    /\ libresult' = NoResult
    /\ outcome' = NoResult

\* A client calls download(...) or upload(...) with some argument list.
ClientCall ==
    /\ caller = "client"
    /\ wpc = "idle"
    /\ \E fn \in {"download", "upload"} :
         \E pos \in PosArgs(SignatureOf(fn)), kw \in KwArgs(SignatureOf(fn)) :
            Enter([fn |-> fn, pos |-> pos, kw |-> kw])
    /\ UNCHANGED <<caller, environ, spc, stdout, model_path, uncaught>>

\* def download(...) / def upload(...): the arguments are bound to the
\* parameters, or the call fails with TypeError before the body runs.
BindArguments ==
    /\ wpc = "bind"
    /\ LET b == IF call.fn = "download" THEN BindDownload(call.pos, call.kw)
                ELSE BindUpload(call.pos, call.kw)
       IN  IF b.ok
             THEN /\ frame' = [named |-> b.named, kwargs |-> b.kwargs]
                  /\ wpc' = "body"
                  /\ outcome' = outcome
             ELSE /\ frame' = frame
                  /\ wpc' = "done"
                  /\ outcome' = Raised(b.exc)
    /\ UNCHANGED <<caller, environ, spc, stdout, model_path, uncaught,
                   wrappercalls, call, libcalls, libresult>>

\* download: snapshot_download(...) is invoked.
DownloadInvoke ==
    /\ wpc = "body"
    /\ call.fn = "download"
    /\ libcalls' = Append(libcalls, [fn |-> "snapshot_download",
                                     kwargs |-> SnapshotDownloadArgs(frame.named, frame.kwargs)])
    /\ wpc' = "lib"
    /\ UNCHANGED <<caller, environ, spc, stdout, model_path, uncaught,
                   wrappercalls, call, frame, libresult, outcome>>

\* snapshot_download returns a value, which download returns.
DownloadLibReturns ==
    /\ wpc = "lib"
    /\ call.fn = "download"
    /\ \E p \in SnapshotPaths :
         /\ libresult' = Returned(p)
         /\ outcome' = DownloadReturn(p)
    /\ wpc' = "done"
    /\ UNCHANGED <<caller, environ, spc, stdout, model_path, uncaught,
                   wrappercalls, call, frame, libcalls>>

\* snapshot_download raises.
DownloadLibRaises ==
    /\ wpc = "lib"
    /\ call.fn = "download"
    /\ \E e \in LibExceptions :
         /\ libresult' = Raised(e)
         /\ outcome' = DownloadUnwind(e)
    /\ wpc' = "done"
    /\ UNCHANGED <<caller, environ, spc, stdout, model_path, uncaught,
                   wrappercalls, call, frame, libcalls>>

\* upload: api = HfApi()
UploadConstruct ==
    /\ wpc = "body"
    /\ call.fn = "upload"
    /\ libcalls' = Append(libcalls, [fn |-> "HfApi", kwargs |-> EmptyDict])
    /\ wpc' = "api"
    /\ UNCHANGED <<caller, environ, spc, stdout, model_path, uncaught,
                   wrappercalls, call, frame, libresult, outcome>>

\* upload: api.upload_folder(...) is invoked.
UploadInvoke ==
    /\ wpc = "api"
    /\ call.fn = "upload"
    /\ libcalls' = Append(libcalls, [fn |-> "upload_folder",
                                     kwargs |-> UploadFolderArgs(frame.named, frame.kwargs)])
    /\ wpc' = "lib"
    /\ UNCHANGED <<caller, environ, spc, stdout, model_path, uncaught,
                   wrappercalls, call, frame, libresult, outcome>>

\* upload_folder returns a value; upload falls off its end.
UploadLibReturns ==
    /\ wpc = "lib"
    /\ call.fn = "upload"
    /\ \E v \in UploadResults :
         /\ libresult' = Returned(v)
         /\ outcome' = UploadReturn(v)
    /\ wpc' = "done"
    /\ UNCHANGED <<caller, environ, spc, stdout, model_path, uncaught,
                   wrappercalls, call, frame, libcalls>>

\* upload_folder raises.
UploadLibRaises ==
    /\ wpc = "lib"
    /\ call.fn = "upload"
    /\ \E e \in LibExceptions :
         /\ libresult' = Raised(e)
         /\ outcome' = UploadUnwind(e)
    /\ wpc' = "done"
    /\ UNCHANGED <<caller, environ, spc, stdout, model_path, uncaught,
                   wrappercalls, call, frame, libcalls>>

\* hfUtils.py line 17: print(f"Starting download of ...")
ScriptPrintStart ==
    /\ spc = "line17"
    /\ stdout' = Append(stdout, StartMessage)
    /\ spc' = "line18"
    /\ UNCHANGED <<caller, environ, model_path, uncaught, wrappercalls, call,
                   wpc, frame, libcalls, libresult, outcome>>

\* hfUtils.py line 18: print(f"From endpoint: {os.environ['HF_ENDPOINT']}")
ScriptPrintEndpoint ==
    /\ spc = "line18"
    /\ LET got == EnvironGetItem(environ, "HF_ENDPOINT")
       IN  IF got.kind = "return"
             THEN /\ stdout' = Append(stdout, EndpointMessage(got.val))
                  /\ spc' = "line20"
                  /\ uncaught' = uncaught
             ELSE /\ stdout' = stdout
                  /\ spc' = "terminated"
                  /\ uncaught' = got.val
    /\ UNCHANGED <<caller, environ, model_path, wrappercalls, call,
                   wpc, frame, libcalls, libresult, outcome>>

\* hfUtils.py lines 20-25: download(...) is called.
ScriptCallDownload ==
    /\ spc = "line20"
    /\ wpc = "idle"
    /\ Enter(ScriptCall)
    /\ spc' = "in_download"
    /\ UNCHANGED <<caller, environ, stdout, model_path, uncaught>>

\* hfUtils.py line 20: model_path = <what download returned>, or the
\* exception download ended with ends the script.
ScriptAssign ==
    /\ spc = "in_download"
    /\ wpc = "done"
    /\ IF outcome.kind = "return"
         THEN /\ model_path' = outcome.val
              /\ spc' = "line27"
              /\ uncaught' = uncaught
         ELSE /\ model_path' = model_path
              /\ spc' = "terminated"
              /\ uncaught' = outcome.val
    /\ UNCHANGED <<caller, environ, stdout, wrappercalls, call,
                   wpc, frame, libcalls, libresult, outcome>>

\* hfUtils.py line 27: print(f"Download complete! ..."), and the script ends.
ScriptPrintComplete ==
    /\ spc = "line27"
    /\ stdout' = Append(stdout, CompleteMessage(model_path))
    /\ spc' = "terminated"
    /\ UNCHANGED <<caller, environ, model_path, uncaught, wrappercalls, call,
                   wpc, frame, libcalls, libresult, outcome>>

Next ==
    \/ ClientCall
    \/ BindArguments
    \/ DownloadInvoke
    \/ DownloadLibReturns
    \/ DownloadLibRaises
    \/ UploadConstruct
    \/ UploadInvoke
    \/ UploadLibReturns
    \/ UploadLibRaises
    \/ ScriptPrintStart
    \/ ScriptPrintEndpoint
    \/ ScriptCallDownload
    \/ ScriptAssign
    \/ ScriptPrintComplete

Spec == Init /\ [][Next]_vars

----------------------------------------------------------------------------
\* Vocabulary of the properties: what the caller wrote at the call site.

\* the parameter is given at the call site, by position or by keyword
Gives(c, name) ==
    \/ ParamIndex(SignatureOf(c.fn), name) <= Len(c.pos)
    \/ name \in DOMAIN c.kw

\* the value written for it
ArgAt(c, name) ==
    IF ParamIndex(SignatureOf(c.fn), name) <= Len(c.pos)
      THEN c.pos[ParamIndex(SignatureOf(c.fn), name)]
      ELSE c.kw[name]

\* a call Python accepts as far as positions go: no surplus positional
\* argument and no parameter given both by position and by keyword
WellFormed(c) ==
    /\ Len(c.pos) <= Len(SignatureOf(c.fn))
    /\ \A i \in 1..Len(c.pos) : SignatureOf(c.fn)[i] \notin DOMAIN c.kw

GivesAll(c) == \A name \in ParamNames(SignatureOf(c.fn)) : Gives(c, name)

\* the passthrough keywords of the call: those that name no parameter
ExtraOf(c) == DOMAIN c.kw \ ParamNames(SignatureOf(c.fn))

Capability(fn) == IF fn = "download" THEN "snapshot_download" ELSE "upload_folder"
IsCapability(x) == x.fn = Capability(call.fn)
\* the invocations of the underlying capability made for the current call
Invocations == SelectSeq(libcalls, IsCapability)

----------------------------------------------------------------------------
\* C1: a call download(repo_id, repo_type, etag_timeout, revision) invokes
\* snapshot_download exactly once (never more, and once when the wrapper has
\* passed its call statement), with exactly the four supplied values, whatever
\* repo_type is.
C1_DownloadForwards ==
    (call.fn = "download" /\ WellFormed(call) /\ GivesAll(call)) =>
        /\ Len(Invocations) <= 1
        /\ wpc \in {"lib", "done"} =>
             /\ Len(Invocations) = 1
             /\ \A name \in ParamNames(DownloadParams) :
                  /\ name \in DOMAIN Invocations[1].kwargs
                  /\ Invocations[1].kwargs[name] = ArgAt(call, name)

\* a finished four-positional download of a repo_type outside the hub's types
C1_Witness ==
    /\ call.fn = "download"
    /\ Len(call.pos) = 4
    /\ call.pos[2] = PyStr("bogus")
    /\ wpc = "done"
    /\ Len(Invocations) = 1
    /\ Invocations[1].kwargs["repo_type"] = PyStr("bogus")

\* C2: a call upload(folder_path, repo_id, repo_type, revision) invokes
\* HfApi.upload_folder exactly once, with exactly the four supplied values.
C2_UploadForwards ==
    (call.fn = "upload" /\ WellFormed(call) /\ GivesAll(call)) =>
        /\ Len(Invocations) <= 1
        /\ wpc \in {"lib", "done"} =>
             /\ Len(Invocations) = 1
             /\ \A name \in ParamNames(UploadParams) :
                  /\ name \in DOMAIN Invocations[1].kwargs
                  /\ Invocations[1].kwargs[name] = ArgAt(call, name)

C2_Witness ==
    /\ call.fn = "upload"
    /\ Len(call.pos) = 2
    /\ GivesAll(call)
    /\ wpc = "done"
    /\ Len(Invocations) = 1
    /\ Invocations[1].kwargs["folder_path"] = PyStr("/data/ds")
    /\ Invocations[1].kwargs["repo_id"] = PyStr("org/model")

\* C3: when the call omits revision, the capability receives revision None,
\* not the empty string; when it receives None, the call omitted revision or
\* wrote None itself, and a revision that was written arrives as written.
C3_OmittedRevisionIsNone ==
    \A i \in 1..Len(Invocations) :
        /\ "revision" \in DOMAIN Invocations[i].kwargs
        /\ ~Gives(call, "revision") =>
             /\ Invocations[i].kwargs["revision"] = PyNone
             /\ Invocations[i].kwargs["revision"] # PyStr("")
        /\ Gives(call, "revision") =>
             Invocations[i].kwargs["revision"] = ArgAt(call, "revision")

\* the spec's scenario: upload("/tmp/model", "org/model", "model"), no revision
C3_Witness ==
    /\ call.fn = "upload"
    /\ call.pos = <<PyStr("/tmp/model"), PyStr("org/model"), PyStr("model")>>
    /\ call.kw = EmptyDict
    /\ Len(Invocations) = 1
    /\ Invocations[1].kwargs["revision"] = PyNone

\* C4: the capability receives exactly the passthrough keywords of the call,
\* each with its value, next to the four named parameters and nothing else.
C4_KwargsPassThrough ==
    \A i \in 1..Len(Invocations) :
        /\ DOMAIN Invocations[i].kwargs = ParamNames(SignatureOf(call.fn)) \cup ExtraOf(call)
        /\ \A k \in ExtraOf(call) : Invocations[i].kwargs[k] = call.kw[k]

C4_Witness ==
    /\ call.fn = "download"
    /\ ExtraOf(call) = {"token", "local_dir"}
    /\ Len(Invocations) = 1
    /\ Invocations[1].kwargs["token"] = PyStr("token")
    /\ Invocations[1].kwargs["local_dir"] = PyStr("local_dir")

\* C5: what snapshot_download returns is what download returns.
C5_DownloadReturnsPath ==
    (call.fn = "download" /\ libresult.kind = "return") =>
        /\ wpc = "done"
        /\ outcome = Returned(libresult.val)

C5_Witness ==
    /\ call.fn = "download"
    /\ caller = "client"
    /\ libresult = Returned(PyStr("/cache/models--admin/snapshots/abc"))
    /\ outcome.kind = "return"
    /\ outcome.val = PyStr("/cache/models--admin/snapshots/abc")

\* C6: whatever upload_folder returns, upload returns None.
C6_UploadReturnsNone ==
    (call.fn = "upload" /\ wpc = "done") =>
        /\ outcome.kind = "return" => outcome.val = PyNone
        /\ libresult.kind = "return" => outcome = Returned(PyNone)

C6_Witness ==
    /\ call.fn = "upload"
    /\ wpc = "done"
    /\ libresult = Returned(PyObj("CommitInfo"))
    /\ outcome = Returned(PyNone)

\* C7: when the capability raises, the wrapper ends with that same exception
\* and the capability has been invoked exactly once.
C7_ExceptionsPropagate ==
    libresult.kind = "raise" =>
        /\ wpc = "done"
        /\ outcome = Raised(libresult.val)
        /\ Len(Invocations) = 1

C7_Witness ==
    /\ call.fn = "upload"
    /\ libresult = Raised(PyExc("RepositoryNotFoundError"))
    /\ outcome = Raised(PyExc("RepositoryNotFoundError"))
    /\ Len(Invocations) = 1

\* C8: the parameters documented as optional take their documented defaults:
\* download without repo_type and etag_timeout forwards "model" and 86400,
\* upload without repo_type forwards "model".
C8_DocumentedDefaults ==
    (wpc = "done" /\ WellFormed(call) /\ ~Gives(call, "repo_type")
        /\ \A name \in ParamNames(SignatureOf(call.fn)) \ {"repo_type", "etag_timeout", "revision"} :
              Gives(call, name)
        /\ (call.fn = "download" => ~Gives(call, "etag_timeout"))) =>
            /\ Len(Invocations) = 1
            /\ Invocations[1].kwargs["repo_type"] = PyStr("model")
            /\ call.fn = "download" => Invocations[1].kwargs["etag_timeout"] = PyInt(86400)

\* the call the driver script is said to make
HardcodedCall ==
    [fn |-> "download",
     pos |-> <<>>,
     kw |-> [repo_id |-> PyStr("admin"), repo_type |-> PyStr("model"),
             etag_timeout |-> PyInt(86400), revision |-> PyStr("main")]]

EndpointSet == "HF_ENDPOINT" \in DOMAIN environ

\* C9 as stated: every run of the driver script invokes download exactly once,
\* with the hardcoded values, whatever the environment.
C9_EveryRunCallsDownloadOnce ==
    (caller = "script" /\ spc = "terminated") =>
        /\ Len(wrappercalls) = 1
        /\ wrappercalls[1] = HardcodedCall

\* C9 amended: a run of the driver script invokes download at most once, only
\* with the hardcoded values whatever HF_ENDPOINT holds, exactly once when
\* HF_ENDPOINT is set and the run has ended, and never when HF_ENDPOINT is unset.
C9_CallsDownloadOnceWhenEndpointSet ==
    caller = "script" =>
        /\ Len(wrappercalls) <= 1
        /\ \A i \in 1..Len(wrappercalls) : wrappercalls[i] = HardcodedCall
        /\ (EndpointSet /\ spc = "terminated") => Len(wrappercalls) = 1
        /\ ~EndpointSet => Len(wrappercalls) = 0

C9_Witness ==
    /\ caller = "script"
    /\ spc = "terminated"
    /\ EndpointSet
    /\ environ["HF_ENDPOINT"] = ""
    /\ wrappercalls = <<HardcodedCall>>
    /\ Len(Invocations) = 1

\* C10: in a run of the driver script the output is, in this order, the start
\* message, the endpoint message, the completion message; download is called
\* only after the first two; the completion message is printed only after
\* download returned, and carries what it returned; a run with HF_ENDPOINT
\* unset ends with KeyError, never calls download and prints no completion; a
\* run in which download raises ends with that exception and no completion.
C10_ScriptOrder ==
    caller = "script" =>
        /\ Len(stdout) <= 3
        /\ Len(stdout) >= 1 => stdout[1] = StartMessage
        /\ Len(stdout) >= 2 =>
             /\ EndpointSet
             /\ stdout[2] = EndpointMessage(PyStr(environ["HF_ENDPOINT"]))
        /\ wrappercalls # <<>> => Len(stdout) >= 2
        /\ Len(stdout) = 3 =>
             /\ wrappercalls # <<>>
             /\ wpc = "done"
             /\ outcome.kind = "return"
             /\ libresult.kind = "return"
             /\ stdout[3] = CompleteMessage(outcome.val)
        /\ ~EndpointSet =>
             /\ wrappercalls = <<>>
             /\ Len(stdout) <= 1
             /\ spc = "terminated" => uncaught = PyExc("KeyError")
        /\ (outcome.kind = "raise" /\ spc = "terminated") =>
             /\ uncaught = outcome.val
             /\ Len(stdout) = 2
        /\ (spc = "terminated" /\ uncaught = Unbound) => Len(stdout) = 3

C10_Witness ==
    /\ caller = "script"
    /\ spc = "terminated"
    /\ uncaught = Unbound
    /\ Len(stdout) = 3
    /\ stdout[3] = CompleteMessage(PyStr("/cache/models--admin/snapshots/abc"))
    /\ Len(wrappercalls) = 1

====
